---- MODULE Spec2Model ----
(***************************************************************************)
(* The streaming agent orchestrator of ai-chatbot-api:                     *)
(*   app/services/agent_service.py   _run_planner, _run_researcher,        *)
(*                                   _run_writer, run_agent_workflow       *)
(*   app/utils/citation_utils.py     clean_citations                       *)
(*   app/api/endpoints/chat.py       get_ask (the SSE transport)           *)
(*                                                                         *)
(* Text is a sequence of one-character strings.  The ten characters of     *)
(* "#citation-" are carried as the single token "#citation-"; fixed        *)
(* messages of the program are carried as one token each.                  *)
(***************************************************************************)
EXTENDS Integers, Sequences, FiniteSets, TLC

(***************************************************************************)
(* Text helpers (Python str methods used by the program)                   *)
(***************************************************************************)

\* Python's whitespace, as far as the model's alphabet has it.
Whitespace == {" ", "\n", "\t"}

\* The backquote character (TLA+ strings cannot hold it).
Backtick == "<backquote>"

Digits == {"0", "1", "2", "3", "4", "5", "6", "7", "8", "9"}

RECURSIVE LStripChars(_, _)
\* str.lstrip(chars): drop leading characters that are in the set chars.
LStripChars(s, chars) ==
    IF s # << >> /\ Head(s) \in chars THEN LStripChars(Tail(s), chars) ELSE s

RECURSIVE RStripChars(_, _)
\* str.rstrip(chars): drop trailing characters that are in the set chars.
RStripChars(s, chars) ==
    IF s # << >> /\ s[Len(s)] \in chars
    THEN RStripChars(SubSeq(s, 1, Len(s) - 1), chars)
    ELSE s

\* str.strip() without arguments.
Strip(s) == RStripChars(LStripChars(s, Whitespace), Whitespace)

\* str(n) for the small naturals the model meets (Source ids).
IntToStr(n) ==
    CASE n = 0 -> "0" [] n = 1 -> "1" [] n = 2 -> "2" [] n = 3 -> "3"
      [] n = 4 -> "4" [] n = 5 -> "5" [] n = 6 -> "6" [] n = 7 -> "7"
      [] n = 8 -> "8" [] n = 9 -> "9" [] OTHER -> "many"

(***************************************************************************)
(* json.loads on the model's alphabet.  A parsed value is a tagged record  *)
(* [t, v]: t in {"list","str","num","obj","lit"}; v is the element         *)
(* sequence of a list, the characters of a string or number, the member    *)
(* sequence of an object, the name of a literal.                           *)
(***************************************************************************)

StrVal(chars) == [t |-> "str", v |-> chars]
ListVal(elems) == [t |-> "list", v |-> elems]
NumVal(chars) == [t |-> "num", v |-> chars]
ObjVal(members) == [t |-> "obj", v |-> members]
LitVal(name) == [t |-> "lit", v |-> <<name>>]

ParseFail == [ok |-> FALSE, val |-> LitVal("undefined"), next |-> 0]
ParseOk(val, next) == [ok |-> TRUE, val |-> val, next |-> next]

At(s, i) == IF i >= 1 /\ i <= Len(s) THEN s[i] ELSE "<eof>"

RECURSIVE SkipWs(_, _)
SkipWs(s, i) == IF At(s, i) \in Whitespace THEN SkipWs(s, i + 1) ELSE i

RECURSIVE DigitsEnd(_, _)
\* The first position at or after i that holds no digit.
DigitsEnd(s, i) == IF At(s, i) \in Digits THEN DigitsEnd(s, i + 1) ELSE i

RECURSIVE QuoteEnd(_, _)
\* The position of the closing quote of a string whose body starts at i;
\* 0 when the string is unterminated or holds a control character.
QuoteEnd(s, i) ==
    IF i > Len(s) \/ s[i] \in {"\n", "\t", "\\"} THEN 0
    ELSE IF s[i] = "\"" THEN i
    ELSE QuoteEnd(s, i + 1)

ParseString(s, i) ==
    LET j == QuoteEnd(s, i + 1)
    IN  IF j = 0 THEN ParseFail ELSE ParseOk(StrVal(SubSeq(s, i + 1, j - 1)), j + 1)

ParseNumber(s, i) ==
    LET j == DigitsEnd(s, i)
    IN  IF s[i] = "0" THEN ParseOk(NumVal(<<"0">>), i + 1)
        ELSE ParseOk(NumVal(SubSeq(s, i, j - 1)), j)

ParseLiteral(s, i) ==
    LET Is(w) == i + Len(w) - 1 <= Len(s) /\ SubSeq(s, i, i + Len(w) - 1) = w
    IN  IF Is(<<"n", "u", "l", "l">>) THEN ParseOk(LitVal("null"), i + 4)
        ELSE IF Is(<<"t", "r", "u", "e">>) THEN ParseOk(LitVal("true"), i + 4)
        ELSE IF Is(<<"f", "a", "l", "s", "e">>) THEN ParseOk(LitVal("false"), i + 5)
        ELSE ParseFail

RECURSIVE ParseValue(_, _)
RECURSIVE ParseElems(_, _, _)
RECURSIVE ParseMembers(_, _, _)

\* The elements of an array after "[": i is the start of the next element.
ParseElems(s, i, acc) ==
    LET r == ParseValue(s, i)
        j == SkipWs(s, r.next)
    IN  IF ~r.ok THEN ParseFail
        ELSE IF At(s, j) = "]" THEN ParseOk(ListVal(Append(acc, r.val)), j + 1)
        ELSE IF At(s, j) = "," THEN ParseElems(s, SkipWs(s, j + 1), Append(acc, r.val))
        ELSE ParseFail

\* The members of an object after "{": i is the start of the next key.
ParseMembers(s, i, acc) ==
    LET k == IF At(s, i) = "\"" THEN ParseString(s, i) ELSE ParseFail
        c == SkipWs(s, k.next)
        r == ParseValue(s, SkipWs(s, c + 1))
        j == SkipWs(s, r.next)
        m == Append(acc, [key |-> k.val, val |-> r.val])
    IN  IF ~k.ok \/ At(s, c) # ":" THEN ParseFail
        ELSE IF ~r.ok THEN ParseFail
        ELSE IF At(s, j) = "}" THEN ParseOk(ObjVal(m), j + 1)
        ELSE IF At(s, j) = "," THEN ParseMembers(s, SkipWs(s, j + 1), m)
        ELSE ParseFail

ParseValue(s, i) ==
    LET c == At(s, i)
    IN  IF c = "\"" THEN ParseString(s, i)
        ELSE IF c \in Digits THEN ParseNumber(s, i)
        ELSE IF c = "[" THEN
            (IF At(s, SkipWs(s, i + 1)) = "]"
             THEN ParseOk(ListVal(<< >>), SkipWs(s, i + 1) + 1)
             ELSE ParseElems(s, SkipWs(s, i + 1), << >>))
        ELSE IF c = "{" THEN
            (IF At(s, SkipWs(s, i + 1)) = "}"
             THEN ParseOk(ObjVal(<< >>), SkipWs(s, i + 1) + 1)
             ELSE ParseMembers(s, SkipWs(s, i + 1), << >>))
        ELSE ParseLiteral(s, i)

\* json.loads(s): the value, or a failure (json.JSONDecodeError) when s is
\* no JSON document or is followed by extra data.
JsonLoads(s) ==
    LET r == ParseValue(s, SkipWs(s, 1))
    IN  IF r.ok /\ SkipWs(s, r.next) = Len(s) + 1 THEN r ELSE ParseFail

(***************************************************************************)
(* clean_citations (app/utils/citation_utils.py): four re.sub passes.      *)
(* MatchEnd(p, s, i) is the position after the match of pattern p that     *)
(* starts at i, or 0 when pattern p does not match at i.  Every pattern    *)
(* here matches deterministically (its greedy choice is its only match).   *)
(***************************************************************************)

Citation == "#citation-"

RECURSIVE SkipSpace(_, _)
\* \s* from position i.
SkipSpace(s, i) == IF At(s, i) \in Whitespace THEN SkipSpace(s, i + 1) ELSE i

RECURSIVE ListTailEnd(_, _)
\* (?:,\s*\d+)* from position j, greedy.
ListTailEnd(s, j) ==
    LET k == SkipSpace(s, j + 1)
        d == DigitsEnd(s, k)
    IN  IF At(s, j) = "," /\ d > k THEN ListTailEnd(s, d) ELSE j

MatchEnd(p, s, i) ==
    LET d == DigitsEnd(s, i + 1)
    IN  CASE p = 1 ->  \* \[(\d+(?:,\s*\d+)*)\](?!\()
               LET j == ListTailEnd(s, d)
               IN  IF At(s, i) = "[" /\ d > i + 1 /\ At(s, j) = "]" /\ At(s, j + 1) # "("
                   THEN j + 1 ELSE 0
          [] p = 2 ->  \* \[(\d+)\](?!\()
               IF At(s, i) = "[" /\ d > i + 1 /\ At(s, d) = "]" /\ At(s, d + 1) # "("
               THEN d + 1 ELSE 0
          [] p = 3 ->  \* [\[\(]#citation-(\d+)[\]\)]
               LET e == DigitsEnd(s, i + 2)
               IN  IF At(s, i) \in {"[", "("} /\ At(s, i + 1) = Citation /\ e > i + 2
                      /\ At(s, e) \in {"]", ")"}
                   THEN e + 1 ELSE 0
          [] p = 4 ->  \* \[(\d+)\]\s+\(#citation-
               LET w == SkipSpace(s, d + 1)
               IN  IF At(s, i) = "[" /\ d > i + 1 /\ At(s, d) = "]" /\ w > d + 1
                      /\ At(s, w) = "(" /\ At(s, w + 1) = Citation
                   THEN w + 2 ELSE 0

RECURSIVE SplitComma(_, _)
\* str.split(","), acc being the piece under construction.
SplitComma(s, acc) ==
    IF s = << >> THEN <<acc>>
    ELSE IF Head(s) = "," THEN <<acc>> \o SplitComma(Tail(s), << >>)
    ELSE SplitComma(Tail(s), Append(acc, Head(s)))

\* Faulty variant of CitationLink: f"[{num}]#citation-{num}".
CitationLinkBare(num) == <<"[">> \o num \o <<"]", Citation>> \o num

\* f"[{num}](#citation-{num})"
CitationLink(num) == <<"[">> \o num \o <<"]", "(", Citation>> \o num \o <<")">>

RECURSIVE JoinLinks(_)
JoinLinks(nums) ==
    IF nums = << >> THEN << >>
    ELSE CitationLink(Strip(Head(nums))) \o JoinLinks(Tail(nums))

\* The replacement of the match of pattern p over s[i .. e-1].
Replacement(p, s, i, e) ==
    CASE p = 1 -> JoinLinks(SplitComma(SubSeq(s, i + 1, e - 2), << >>))
      [] p = 2 -> CitationLink(SubSeq(s, i + 1, e - 2))
      [] p = 3 -> <<"(", Citation>> \o SubSeq(s, i + 2, e - 2) \o <<")">>
      [] p = 4 -> SubSeq(s, i, DigitsEnd(s, i + 1)) \o <<"(", Citation>>

RECURSIVE ReSub(_, _, _)
\* re.sub(pattern p, replacement, s) from position i: leftmost,
\* non-overlapping matches, scanned left to right.
ReSub(p, s, i) ==
    IF i > Len(s) THEN << >>
    ELSE LET e == MatchEnd(p, s, i)
         IN  IF e = 0 THEN <<s[i]>> \o ReSub(p, s, i + 1)
             ELSE Replacement(p, s, i, e) \o ReSub(p, s, e)

clean_citations(text) == ReSub(4, ReSub(3, ReSub(2, ReSub(1, text, 1), 1), 1), 1)

(***************************************************************************)
(* Inputs of a run: the query, and what the collaborators answer           *)
(***************************************************************************)

\* The most text increments the provider's stream yields in one run.
MaxChunks == 2

\* max_results of every sub-search.
MaxResults == 2

Queries == {<<"q">>, <<"w", "h", "y">>}

\* Texts the provider may return to the Planner.
PlannerTexts ==
    { <<"[", "\"", "a", "\"", ",", " ", "\"", "b", "\"", "]">>,
      <<"[", "\"", "a", "\"", ",", "\"", "b", "\"", ",", "\"", "c", "\"", "]">>,
      <<Backtick, Backtick, Backtick, "j", "s", "o", "n", "\n",
        "[", "\"", "a", "\"", "]", "\n", Backtick, Backtick, Backtick>>,
      <<"[", "]">>,
      <<"5">>,
      <<"\"", "a", "b", "\"">>,
      <<"{", "\"", "a", "\"", ":", "1", "}">>,
      <<"[", "1", "]">>,
      <<"n", "u", "l", "l">>,
      <<"S", "u", "r", "e", "!">> }

Snippet(url, title, content) == [url |-> url, title |-> title, content |-> content]

\* Search hits: url "a" is found with two different titles and contents.
Snippets ==
    { Snippet("a", "t1", "c1"), Snippet("a", "t2", "c2"),
      Snippet("b", "t1", "c1"), Snippet("c", "t1", "c1") }

\* What one sub-search returns: at most max_results hits.
SnippetLists ==
    UNION { [1 .. n -> Snippets] : n \in 0 .. MaxResults }

\* Text increments of the provider's stream (chunk.text).
Increments == { << >>, <<"x">>, <<"[", "1", "]">> }

(***************************************************************************)
(* Exceptions                                                              *)
(***************************************************************************)

\* Ordinary exception classes are subclasses of Exception;
\* asyncio.CancelledError and GeneratorExit derive from BaseException only.
BaseOnly == {"CancelledError", "GeneratorExit"}

\* Faulty variant of ExceptException: a bare "except:", which catches
\* BaseException too.
ExceptBaseException(cls) == TRUE

\* Faulty variant of ExceptException: the handler is missing.
ExceptNothing(cls) == FALSE

\* "except Exception as e": whether the handler catches an exception of
\* class cls.
ExceptException(cls) == cls \notin BaseOnly

(***************************************************************************)
(* _run_planner                                                            *)
(***************************************************************************)

\* The fallback of both handlers: [query].
PlannerFallback(q) == ListVal(<<StrVal(q)>>)

\* response.text.strip().lstrip("```json").lstrip("```").rstrip("```")
FenceStrip(text) ==
    RStripChars(
        LStripChars(LStripChars(Strip(text), {Backtick, "j", "s", "o", "n"}),
                    {Backtick}),
        {Backtick})

\* What _run_planner returns when the provider returned text.
PlannerResult(q, text) ==
    LET r == JsonLoads(FenceStrip(text))
    IN  IF r.ok THEN r.val ELSE PlannerFallback(q)

(***************************************************************************)
(* _run_researcher                                                         *)
(***************************************************************************)

\* Whether "for q in search_queries" can iterate the value.
Iterable(val) == val.t \in {"list", "str", "obj"}

\* The items "for q in search_queries" visits: the elements of a list, the
\* characters of a string, the keys of a dict.
IterItems(val) ==
    CASE val.t = "list" -> val.v
      [] val.t = "str" -> [i \in 1 .. Len(val.v) |-> StrVal(<<val.v[i]>>)]
      [] val.t = "obj" -> [i \in 1 .. Len(val.v) |-> val.v[i].key]
      [] OTHER -> << >>

Pending == [st |-> "pending", list |-> << >>]
Returned(list) == [st |-> "done", list |-> list]
Raised == [st |-> "raised", list |-> << >>]

\* Faulty variant of GatherResults: the results in completion order (as
\* with asyncio.as_completed, or appending to a list as tasks finish).
GatherResultsByCompletion(res, ord) == [i \in 1 .. Len(ord) |-> res[ord[i]].list]

\* results_lists = await asyncio.gather(*tasks): the results in the order
\* of the tasks, whatever the order ord in which they completed.
GatherResults(res, ord) == [i \in 1 .. Len(res) |-> res[i].list]

RECURSIVE Flatten(_)
\* The visiting order of the two nested loops over results_lists.
Flatten(lists) == IF lists = << >> THEN << >> ELSE Head(lists) \o Flatten(Tail(lists))

\* context_str += ... for one Source.
FormatSource(id, res) ==
    <<"[Source ", IntToStr(id), "]:\n", "URL: ", res.url, "\n",
      "Title: ", res.title, "\n", "Snippet: ", res.content, "\n\n">>

RECURSIVE DedupLoop(_, _, _, _, _)
\* Faulty variant of DedupLoop: the context is extended for every hit, also
\* for one whose url was seen (the four "context_str +=" outside the if).
DedupLoopContextForAll(flat, seen_urls, all_snippets, context_str, source_id_counter) ==
    IF flat = << >> THEN [context_str |-> context_str, sources |-> all_snippets]
    ELSE LET res == Head(flat)
         IN  IF res.url \notin seen_urls
             THEN DedupLoop(Tail(flat), seen_urls \cup {res.url},
                    Append(all_snippets,
                           [id |-> source_id_counter, url |-> res.url,
                            title |-> res.title, content |-> res.content]),
                    context_str \o FormatSource(source_id_counter, res),
                    source_id_counter + 1)
             ELSE DedupLoop(Tail(flat), seen_urls, all_snippets,
                            context_str \o FormatSource(source_id_counter, res),
                            source_id_counter)

\* The loop body over the remaining hits, with the loop's variables.
DedupLoop(flat, seen_urls, all_snippets, context_str, source_id_counter) ==
    IF flat = << >> THEN [context_str |-> context_str, sources |-> all_snippets]
    ELSE LET res == Head(flat)
         IN  IF res.url \notin seen_urls
             THEN DedupLoop(Tail(flat), seen_urls \cup {res.url},
                    Append(all_snippets,
                           [id |-> source_id_counter, url |-> res.url,
                            title |-> res.title, content |-> res.content]),
                    context_str \o FormatSource(source_id_counter, res),
                    source_id_counter + 1)
             ELSE DedupLoop(Tail(flat), seen_urls, all_snippets, context_str,
                            source_id_counter)

\* (context_str, all_snippets) of _run_researcher for the gathered results.
Researcher(results_lists) == DedupLoop(Flatten(results_lists), {}, << >>, << >>, 1)

(***************************************************************************)
(* Events                                                                  *)
(***************************************************************************)

Ev(kind, data) == [event |-> kind, data |-> data]

RECURSIVE JsonObjects(_)
JsonObjects(srcs) ==
    IF srcs = << >> THEN << >>
    ELSE LET x == Head(srcs)
         IN  (<<"{\"id\": ", IntToStr(x.id), ", \"url\": \"", x.url,
                "\", \"title\": \"", x.title, "\", \"content\": \"", x.content, "\"}">>
              \o (IF Tail(srcs) = << >> THEN << >> ELSE <<", ">>))
             \o JsonObjects(Tail(srcs))

\* json.dumps(sources)
JsonDumps(srcs) == <<"[">> \o JsonObjects(srcs) \o <<"]">>

\* Faulty variant of DoneFailed: the handler ends with the payload of success.
DoneFailedAsComplete == Ev("done", <<"Stream complete.">>)

TracePlanning == Ev("trace", <<"Phase 1: Planning...">>)
TraceSearching == Ev("trace", <<"Phase 2: Searching...">>)
TraceWriting == Ev("trace", <<"Phase 3: Reading and Writing...">>)
TraceNoSnippets == Ev("trace", <<"No relevant snippets found.">>)
NoInfoMessage == <<"I could not find any relevant information to answer your query.">>
DoneComplete == Ev("done", <<"Stream complete.">>)
DoneFailed == Ev("done", <<"Stream failed.">>)
WorkflowError(msg) == Ev("error", <<"An unexpected workflow error occurred: ", msg>>)

\* What _run_writer yields from its handler.
WriterErrorText(msg) ==
    <<"\n\n[Error] An error occurred while generating the answer: ", msg>>

\* What _run_writer yields for a text increment of the stream.
WriterPayload(text) == text

\* Faulty variant of ContextIsEmpty: "if context_str is None".
ContextNeverEmpty(context) == FALSE

\* Faulty variant of ContextIsEmpty: the test inverted, "if context_str".
ContextIsNonEmpty(context) == context # << >>

\* "if not context_str"
ContextIsEmpty(context) == context = << >>

(***************************************************************************)
(* One run of run_agent_workflow behind the SSE transport                  *)
(*                                                                         *)
(* pc is the place where the generator is suspended:                       *)
(*   init           created by get_ask, not yet started                    *)
(*   planner        after the first trace, in _run_planner's provider call *)
(*   y_trace2       at the yield of the second trace                       *)
(*   gather         in _run_researcher, at asyncio.gather                  *)
(*   y_sources      at the yield of the sources event                      *)
(*   y_trace3       at the yield of the third trace                        *)
(*   y_trace_none   at the yield of the "No relevant snippets" trace       *)
(*   y_chunk_end    at the yield of the fixed no-information chunk         *)
(*   writer         in _run_writer's stream, or at the yield of a chunk    *)
(*   y_writer_error at the yield of what _run_writer's handler yields      *)
(*   y_done         at the yield of done("Stream complete.")               *)
(*   y_error        in the top-level handler, at the yield of the error    *)
(*   y_done_failed  in the top-level handler, at the yield of the done     *)
(*   end            the generator is exhausted                             *)
(*   cancelled      the transport cancelled the run (client disconnected)  *)
(*   escaped        an exception left run_agent_workflow                   *)
(***************************************************************************)

VARIABLES
    pc,
    query,           \* the run's query
    events,          \* the events yielded so far
    planner_resp,    \* what the provider answered to the Planner
    search_queries,  \* what _run_planner returned
    results,         \* per sub-search: pending, its hits, or raised
    order,           \* the sub-searches in the order they completed
    context_str,     \* _run_researcher's first result
    sources,         \* _run_researcher's second result
    stream,          \* what the provider's stream has produced so far
    connected,       \* whether the client is still connected
    writer_calls,    \* how many times _run_writer has been called
    other,           \* a second run of the same process, suspended
    cite_in,         \* a text given to clean_citations
    cite_out         \* the results of its successive applications

vars == <<pc, query, events, planner_resp, search_queries, results, order,
          context_str, sources, stream, connected, writer_calls, other,
          cite_in, cite_out>>

Unset == LitVal("unset")

\* A run that get_ask has created for query q and that has not started.
Created(q) ==
    /\ pc = "init"
    /\ query = q
    /\ events = << >>
    /\ planner_resp = [kind |-> "none", text |-> << >>]
    /\ search_queries = Unset
    /\ results = << >>
    /\ order = << >>
    /\ context_str = << >>
    /\ sources = << >>
    /\ stream = << >>
    /\ connected = TRUE
    /\ writer_calls = 0

\* The record of a run's variables.
Run(p, q, ev, resp, sq, res, ord, ctx, src, st, conn, calls) ==
    [pc |-> p, query |-> q, events |-> ev, planner_resp |-> resp,
     search_queries |-> sq, results |-> res, order |-> ord, context_str |-> ctx,
     sources |-> src, stream |-> st, connected |-> conn, writer_calls |-> calls]

\* No second run.
NoRun == Run("absent", << >>, << >>, [kind |-> "none", text |-> << >>], Unset,
             << >>, << >>, << >>, << >>, << >>, TRUE, 0)

Init ==
    /\ \E q \in Queries : Created(q)
    /\ other = NoRun
    /\ cite_in = << >>
    /\ cite_out = << >>

\* The suspension points inside the try block of run_agent_workflow.
InTry == {"planner", "y_trace2", "gather", "y_sources", "y_trace3", "y_trace_none",
          "y_chunk_end", "writer", "y_writer_error", "y_done"}

\* Every place where the generator can be suspended.
Suspended == InTry \cup {"y_error", "y_done_failed"}

\* An exception of class cls is raised at the current suspension point: the
\* innermost enclosing "except Exception" that catches it runs.
Throw(cls, msg) ==
    /\ UNCHANGED <<query, context_str, sources>>
    /\ IF pc = "planner" /\ ExceptException(cls)
       THEN \* _run_planner returns [query]; the second trace follows
            /\ search_queries' = PlannerFallback(query)
            /\ events' = Append(events, TraceSearching)
            /\ pc' = "y_trace2"
       ELSE IF pc = "writer" /\ ExceptException(cls)
       THEN \* _run_writer yields the message, relayed as a chunk
            /\ events' = Append(events, Ev("chunk", WriterErrorText(msg)))
            /\ pc' = "y_writer_error"
            /\ UNCHANGED search_queries
       ELSE IF pc \in InTry /\ ExceptException(cls)
       THEN \* the top-level handler
            /\ events' = Append(events, WorkflowError(msg))
            /\ pc' = "y_error"
            /\ UNCHANGED search_queries
       ELSE /\ pc' = IF cls \in BaseOnly THEN "cancelled" ELSE "escaped"
            /\ UNCHANGED <<events, search_queries>>

\* The transport starts the generator: the first trace, then _run_planner.
Start ==
    /\ UNCHANGED <<connected, writer_calls, other, cite_in, cite_out>>
    /\ pc = "init"
    /\ events' = Append(events, TracePlanning)
    /\ pc' = "planner"
    /\ UNCHANGED <<query, planner_resp, search_queries, results, order,
                   context_str, sources, stream>>

\* The provider returns one of the given texts to the Planner.
PlannerReturnsFrom(texts) ==
    /\ UNCHANGED <<connected, writer_calls, other, cite_in, cite_out>>
    /\ pc = "planner"
    /\ \E text \in texts :
          /\ planner_resp' = [kind |-> "text", text |-> text]
          /\ search_queries' = PlannerResult(query, text)
    /\ events' = Append(events, TraceSearching)
    /\ pc' = "y_trace2"
    /\ UNCHANGED <<query, results, order, context_str, sources, stream>>

\* The provider returns text to the Planner.
PlannerReturns == PlannerReturnsFrom(PlannerTexts)

\* The provider call of the Planner fails.
PlannerRaises ==
    /\ UNCHANGED <<connected, writer_calls, other, cite_in, cite_out>>
    /\ pc = "planner"
    /\ planner_resp' = [kind |-> "raise", text |-> << >>]
    /\ Throw("ProviderError", "provider failure")
    /\ UNCHANGED <<results, order, stream>>

\* _run_researcher creates one task per sub-query and awaits them.
ResearcherStart ==
    /\ UNCHANGED <<connected, writer_calls, other, cite_in, cite_out>>
    /\ pc = "y_trace2"
    /\ IF Iterable(search_queries)
       THEN /\ results' = [i \in 1 .. Len(IterItems(search_queries)) |-> Pending]
            /\ pc' = "gather"
            /\ UNCHANGED <<query, events, search_queries, context_str, sources>>
       ELSE /\ Throw("TypeError", "object is not iterable")
            /\ UNCHANGED results
    /\ UNCHANGED <<planner_resp, order, stream>>

\* Sub-search i returns one of the given lists of hits.
SearchReturnsFrom(lists) ==
    /\ UNCHANGED <<connected, writer_calls, other, cite_in, cite_out>>
    /\ pc = "gather"
    /\ \E i \in 1 .. Len(results), list \in lists :
          /\ results[i] = Pending
          /\ results' = [results EXCEPT ![i] = Returned(list)]
          /\ order' = Append(order, i)
    /\ UNCHANGED <<pc, query, events, planner_resp, search_queries, context_str,
                   sources, stream>>

\* Sub-search i returns its hits.
SearchReturns == SearchReturnsFrom(SnippetLists)

\* Faulty variant of SearchRaises: the exception is lost and the barrier
\* keeps waiting for a result that never comes.
SearchRaisesSilently ==
    /\ UNCHANGED <<connected, writer_calls, other, cite_in, cite_out>>
    /\ pc = "gather"
    /\ \E i \in 1 .. Len(results) :
          /\ results[i] = Pending
          /\ results' = [results EXCEPT ![i] = Raised]
          /\ order' = Append(order, i)
    /\ UNCHANGED <<pc, query, events, planner_resp, search_queries, context_str,
                   sources, stream>>

\* Sub-search i raises: gather propagates the first exception to its caller.
SearchRaises ==
    /\ UNCHANGED <<connected, writer_calls, other, cite_in, cite_out>>
    /\ pc = "gather"
    /\ \E i \in 1 .. Len(results) :
          /\ results[i] = Pending
          /\ results' = [results EXCEPT ![i] = Raised]
          /\ order' = Append(order, i)
    /\ Throw("SearchError", "search failure")
    /\ UNCHANGED <<planner_resp, stream>>

\* Faulty variant of ResearcherReturns: the barrier lets go at the first
\* completed sub-search (as with asyncio.wait(return_when=FIRST_COMPLETED)).
ResearcherReturnsEarly ==
    /\ UNCHANGED <<connected, writer_calls, other, cite_in, cite_out>>
    /\ pc = "gather"
    /\ \E i \in 1 .. Len(results) : results[i].st = "done"
    /\ LET r == Researcher(GatherResults(results, order))
       IN  /\ context_str' = r.context_str
           /\ sources' = r.sources
           /\ events' = Append(events, Ev("sources", JsonDumps(r.sources)))
    /\ pc' = "y_sources"
    /\ UNCHANGED <<query, planner_resp, search_queries, results, order, stream>>

\* Faulty variant of ResearcherReturns: seen_urls and source_id_counter are
\* kept at module level, so that they go on from where the other run of the
\* process left them.
ResearcherReturnsShared ==
    /\ UNCHANGED <<connected, writer_calls, other, cite_in, cite_out>>
    /\ pc = "gather"
    /\ \A i \in 1 .. Len(results) : results[i].st = "done"
    /\ LET seen == {other.sources[m].url : m \in 1 .. Len(other.sources)}
           r == DedupLoop(Flatten(GatherResults(results, order)), seen, << >>, << >>,
                          Len(other.sources) + 1)
       IN  /\ context_str' = r.context_str
           /\ sources' = r.sources
           /\ events' = Append(events, Ev("sources", JsonDumps(r.sources)))
    /\ pc' = "y_sources"
    /\ UNCHANGED <<query, planner_resp, search_queries, results, order, stream>>

\* Every sub-search has returned: deduplicate, number, and yield the sources.
\* (results and order are kept until the next step.)
ResearcherReturns ==
    /\ UNCHANGED <<connected, writer_calls, other, cite_in, cite_out>>
    /\ pc = "gather"
    /\ \A i \in 1 .. Len(results) : results[i].st = "done"
    /\ LET r == Researcher(GatherResults(results, order))
       IN  /\ context_str' = r.context_str
           /\ sources' = r.sources
           /\ events' = Append(events, Ev("sources", JsonDumps(r.sources)))
    /\ pc' = "y_sources"
    /\ UNCHANGED <<query, planner_resp, search_queries, results, order, stream>>

EmitTraceWriting ==
    /\ UNCHANGED <<connected, writer_calls, other, cite_in, cite_out>>
    /\ pc = "y_sources"
    /\ events' = Append(events, TraceWriting)
    /\ pc' = "y_trace3"
    /\ results' = << >>
    /\ order' = << >>
    /\ UNCHANGED <<query, planner_resp, search_queries, context_str, sources, stream>>

NoSnippetsTrace ==
    /\ UNCHANGED <<connected, writer_calls, other, cite_in, cite_out>>
    /\ pc = "y_trace3"
    /\ ContextIsEmpty(context_str)
    /\ events' = Append(events, TraceNoSnippets)
    /\ pc' = "y_trace_none"
    /\ UNCHANGED <<query, planner_resp, search_queries, results, order,
                   context_str, sources, stream>>

NoInfoChunk ==
    /\ UNCHANGED <<connected, writer_calls, other, cite_in, cite_out>>
    /\ pc = "y_trace_none"
    /\ events' = Append(events, Ev("chunk", NoInfoMessage))
    /\ pc' = "y_chunk_end"
    /\ UNCHANGED <<query, planner_resp, search_queries, results, order,
                   context_str, sources, stream>>

\* The orchestrator starts iterating _run_writer, which opens the stream.
WriterStart ==
    /\ UNCHANGED <<connected, other, cite_in, cite_out>>
    /\ pc = "y_trace3"
    /\ ~ContextIsEmpty(context_str)
    /\ pc' = "writer"
    /\ writer_calls' = writer_calls + 1
    /\ UNCHANGED <<query, events, planner_resp, search_queries, results, order,
                   context_str, sources, stream>>

\* Faulty variant of WriterYieldsFrom: an empty increment is reported with a
\* trace event instead of being skipped.
WriterYieldsTracingFrom(increments) ==
    /\ UNCHANGED <<connected, writer_calls, other, cite_in, cite_out>>
    /\ pc = "writer"
    /\ Len(stream) < MaxChunks
    /\ \E text \in increments :
          /\ stream' = Append(stream, [kind |-> "text", text |-> text])
          /\ events' = IF text # << >>
                       THEN Append(events, Ev("chunk", WriterPayload(text)))
                       ELSE Append(events, Ev("trace", <<"Empty increment.">>))
    /\ UNCHANGED <<pc, query, planner_resp, search_queries, results, order,
                   context_str, sources>>

\* The stream yields one of the given text increments; an empty one is
\* skipped.
WriterYieldsFrom(increments) ==
    /\ UNCHANGED <<connected, writer_calls, other, cite_in, cite_out>>
    /\ pc = "writer"
    /\ Len(stream) < MaxChunks
    /\ \E text \in increments :
          /\ stream' = Append(stream, [kind |-> "text", text |-> text])
          /\ events' = IF text # << >>
                       THEN Append(events, Ev("chunk", WriterPayload(text)))
                       ELSE events
    /\ UNCHANGED <<pc, query, planner_resp, search_queries, results, order,
                   context_str, sources>>

\* The stream yields a text increment.
WriterYields == WriterYieldsFrom(Increments)

\* The stream ends: _run_writer finishes and the orchestrator yields done.
WriterFinishes ==
    /\ UNCHANGED <<connected, writer_calls, other, cite_in, cite_out>>
    /\ pc = "writer"
    /\ events' = Append(events, DoneComplete)
    /\ pc' = "y_done"
    /\ UNCHANGED <<query, planner_resp, search_queries, results, order,
                   context_str, sources, stream>>

\* The provider fails when the stream is opened or while it is read.
WriterRaises ==
    /\ UNCHANGED <<connected, writer_calls, other, cite_in, cite_out>>
    /\ pc = "writer"
    /\ stream' = Append(stream, [kind |-> "fail", text |-> <<"provider failure">>])
    /\ Throw("ProviderError", "provider failure")
    /\ UNCHANGED <<planner_resp, results, order>>

\* After the fixed chunk, or after _run_writer's handler: done.
EmitDone ==
    /\ UNCHANGED <<connected, writer_calls, other, cite_in, cite_out>>
    /\ pc \in {"y_chunk_end", "y_writer_error"}
    /\ events' = Append(events, DoneComplete)
    /\ pc' = "y_done"
    /\ UNCHANGED <<query, planner_resp, search_queries, results, order,
                   context_str, sources, stream>>

\* Faulty variant of FailDone: the handler ends after the error event.
FailDoneMissing ==
    /\ UNCHANGED <<connected, writer_calls, other, cite_in, cite_out>>
    /\ pc = "y_error"
    /\ pc' = "y_done_failed"
    /\ UNCHANGED <<query, events, planner_resp, search_queries, results, order,
                   context_str, sources, stream>>

\* The top-level handler's second yield.
FailDone ==
    /\ UNCHANGED <<connected, writer_calls, other, cite_in, cite_out>>
    /\ pc = "y_error"
    /\ events' = Append(events, DoneFailed)
    /\ pc' = "y_done_failed"
    /\ UNCHANGED <<query, planner_resp, search_queries, results, order,
                   context_str, sources, stream>>

\* The generator is resumed after its last yield and ends.
Return ==
    /\ UNCHANGED <<connected, writer_calls, other, cite_in, cite_out>>
    /\ pc \in {"y_done", "y_done_failed"}
    /\ pc' = "end"
    /\ UNCHANGED <<query, events, planner_resp, search_queries, results, order,
                   context_str, sources, stream>>

\* The client disconnects: the transport cancels the task that iterates the
\* generator, and CancelledError (or GeneratorExit) is raised where the
\* generator is suspended.
Disconnect ==
    /\ connected
    /\ connected' = FALSE
    /\ pc \in Suspended
    /\ Throw("CancelledError", "")
    /\ UNCHANGED <<planner_resp, results, order, stream, writer_calls, other,
                   cite_in, cite_out>>

Next ==
    \/ Start
    \/ PlannerReturns
    \/ PlannerRaises
    \/ ResearcherStart
    \/ SearchReturns
    \/ SearchRaises
    \/ ResearcherReturns
    \/ EmitTraceWriting
    \/ NoSnippetsTrace
    \/ NoInfoChunk
    \/ WriterStart
    \/ WriterYields
    \/ WriterFinishes
    \/ WriterRaises
    \/ EmitDone
    \/ FailDone
    \/ Return
    \/ Disconnect

Spec == Init /\ [][Next]_vars

(***************************************************************************)
(* The same run over fewer collaborator answers, for the properties of     *)
(* whole behaviours.                                                       *)
(***************************************************************************)

\* A list of two strings, a fenced list of one string, and a number.
FewPlannerTexts ==
    { <<"[", "\"", "a", "\"", ",", " ", "\"", "b", "\"", "]">>,
      <<Backtick, Backtick, Backtick, "j", "s", "o", "n", "\n",
        "[", "\"", "a", "\"", "]", "\n", Backtick, Backtick, Backtick>>,
      <<"5">> }

\* No hit, one hit, and two hits of which one repeats the url of the other
\* list.
FewSnippetLists ==
    { << >>,
      <<Snippet("a", "t1", "c1")>>,
      <<Snippet("b", "t1", "c1"), Snippet("a", "t2", "c2")>> }

FewIncrements == { << >>, <<"x">> }

FewPlannerReturns == PlannerReturnsFrom(FewPlannerTexts)
FewSearchReturns == SearchReturnsFrom(FewSnippetLists)
FewWriterYields == WriterYieldsFrom(FewIncrements)

\* A step of the run itself: every step but the client's disconnection.
Progress ==
    \/ Start
    \/ FewPlannerReturns
    \/ PlannerRaises
    \/ ResearcherStart
    \/ FewSearchReturns
    \/ SearchRaises
    \/ ResearcherReturns
    \/ EmitTraceWriting
    \/ NoSnippetsTrace
    \/ NoInfoChunk
    \/ WriterStart
    \/ FewWriterYields
    \/ WriterFinishes
    \/ WriterRaises
    \/ EmitDone
    \/ FailDone
    \/ Return

FewNext ==
    \/ Progress
    \/ Disconnect

\* The run under the assumptions that every collaborator call eventually
\* returns or fails and that the transport keeps iterating the generator
\* while the client is connected.
LiveSpec == Init /\ [][FewNext]_vars /\ WF_vars(Progress)

(***************************************************************************)
(* Properties                                                              *)
(***************************************************************************)

LastEvent == events[Len(events)]

\* The number of events of a kind.
CountKind(kind) == Cardinality({i \in 1 .. Len(events) : events[i].event = kind})

\* _run_researcher has returned in this run: its sources were yielded.
ResearcherReturned == \E i \in 1 .. Len(events) : events[i].event = "sources"

\* The run has yielded its last event and was not cut short.
Completed == pc \in {"y_done", "y_done_failed", "end"}

\* C1: in a run that is not cut short by a disconnection there is exactly
\* one done event, and no event of any kind follows a done event.
C1_DoneOnceAndLast ==
    /\ \A i \in 1 .. Len(events) : events[i].event = "done" => i = Len(events)
    /\ Completed => (events # << >> /\ LastEvent.event = "done")
    /\ pc # "escaped"

\* A run that went through the top-level handler and ended.
C1_Witness ==
    /\ pc = "end"
    /\ CountKind("done") = 1
    /\ CountKind("error") = 1
    /\ LastEvent = DoneFailed

\* C2: a run that ends with done holds exactly one sources event, and no
\* chunk or error event comes before it.
C2_SourcesOnceBeforeChunks ==
    Completed =>
        /\ CountKind("sources") = 1
        /\ \A i, j \in 1 .. Len(events) :
              (events[j].event = "sources" /\ events[i].event \in {"chunk", "error"})
                  => j < i

\* The provider's stream failed, and nothing was cancelled since.
WriterFailed == stream # << >> /\ stream[Len(stream)].kind = "fail"

\* C3: when the provider's stream fails in the Writer stage, the run goes on
\* with exactly one error event followed by done("Stream complete."); the
\* failure is not the payload of a chunk event.
C3_WriterFailureIsErrorEvent ==
    /\ (WriterFailed /\ pc = "y_writer_error") => LastEvent.event = "error"
    /\ (WriterFailed /\ Completed) =>
          /\ Len(events) >= 2
          /\ events[Len(events) - 1].event = "error"
          /\ LastEvent = DoneComplete
          /\ CountKind("error") = 1

\* C4: a sub-search that raises counts as an empty result: the run does not
\* enter the top-level handler because of it, and the hits of the other
\* sub-searches reach the Source sequence.
C4_FailedSearchIsEmptyResult ==
    (\E i \in 1 .. Len(results) : results[i].st = "raised") =>
        /\ pc \in {"gather", "y_sources", "cancelled"}
        /\ pc = "y_sources" =>
              sources = Researcher([i \in 1 .. Len(results) |-> results[i].list]).sources

\* The hits of the sub-searches, by (sub-query position, result position).
Hits == {p \in (1 .. Len(results)) \X (1 .. MaxResults + 1) :
            p[2] <= Len(results[p[1]].list)}
Hit(p) == results[p[1]].list[p[2]]
ScannedBefore(p, q) == p[1] < q[1] \/ (p[1] = q[1] /\ p[2] < q[2])
\* Whether p is the first hit, in scanning order, with its url.
FirstOfUrl(p) ==
    /\ p \in Hits
    /\ \A q \in Hits : Hit(q).url = Hit(p).url => (q = p \/ ScannedBefore(p, q))

\* C5: the Source sequence has pairwise distinct urls, ids 1..M in order,
\* holds exactly the urls that were found, ordered by first appearance in
\* the scan by sub-query position and then result position, each with the
\* title and content of its first occurrence, whatever the order in which
\* the sub-searches completed.
C5_SourcesDeterministic ==
    pc = "y_sources" =>
        /\ \A m, n \in 1 .. Len(sources) : sources[m].url = sources[n].url => m = n
        /\ \A m \in 1 .. Len(sources) : sources[m].id = m
        /\ {sources[m].url : m \in 1 .. Len(sources)} = {Hit(p).url : p \in Hits}
        /\ \A m \in 1 .. Len(sources) : \E p \in Hits :
              /\ FirstOfUrl(p)
              /\ Hit(p).url = sources[m].url
              /\ Hit(p).title = sources[m].title
              /\ Hit(p).content = sources[m].content
              /\ \A n \in 1 .. Len(sources) : \A q \in Hits :
                    (m < n /\ FirstOfUrl(q) /\ Hit(q).url = sources[n].url)
                        => ScannedBefore(p, q)

\* Q1 -> [a, b], Q2 -> [b, c], the second sub-search completing first.
C5_Witness ==
    /\ pc = "y_sources"
    /\ order = <<2, 1>>
    /\ results[1].list = <<Snippet("a", "t2", "c2"), Snippet("b", "t1", "c1")>>
    /\ results[2].list = <<Snippet("b", "t1", "c1"), Snippet("c", "t1", "c1")>>
    /\ Len(sources) = 3
    /\ sources[1] = [id |-> 1, url |-> "a", title |-> "t2", content |-> "c2"]
    /\ sources[3].url = "c"

\* Whether the text, after code-fence stripping, parses to a list of strings.
ParsesToStringList(text) ==
    LET r == JsonLoads(FenceStrip(text))
    IN  /\ r.ok
        /\ r.val.t = "list"
        /\ \A i \in 1 .. Len(r.val.v) : r.val.v[i].t = "str"

\* C6: when the provider's text does not parse to a list of strings,
\* _run_planner returns exactly [query].
C6_PlannerFallbackOnNonList ==
    (planner_resp.kind = "text" /\ ~ParsesToStringList(planner_resp.text))
        => search_queries = PlannerFallback(query)

\* C7: whatever the provider does, _run_planner returns a non-empty sequence
\* of sub-queries, and the run neither fails nor issues zero sub-searches
\* because of the Planner stage.
C7_PlannerNonEmpty ==
    /\ planner_resp.kind # "none" =>
          (search_queries.t = "list" /\ Len(search_queries.v) >= 1)
    /\ pc = "gather" => Len(results) >= 1

\* The statement of C8 as the spec has it: six events.
C8_EmptyEvidenceSixEvents ==
    (pc = "end" /\ ResearcherReturned /\ context_str = << >>) =>
        events = <<TracePlanning, TraceSearching, Ev("sources", <<"[", "]">>),
                   TraceWriting, Ev("chunk", NoInfoMessage), DoneComplete>>

\* C8 (amended): a run whose EvidenceContext is empty and that is not cut
\* short yields exactly seven events: trace, trace, sources([]), trace,
\* trace("No relevant snippets found."), chunk(fixed message), done.
C8_EmptyEvidenceSevenEvents ==
    (Completed /\ ResearcherReturned /\ context_str = << >>) =>
        events = <<TracePlanning, TraceSearching, Ev("sources", <<"[", "]">>),
                   TraceWriting, TraceNoSnippets, Ev("chunk", NoInfoMessage),
                   DoneComplete>>

\* Two sub-searches were issued and both came back without hits.
C8_Witness ==
    /\ pc = "end"
    /\ ResearcherReturned
    /\ context_str = << >>
    /\ search_queries.t = "list"
    /\ Len(search_queries.v) = 2
    /\ CountKind("chunk") = 1

\* The payloads of the chunk events, in order.
ChunkPayloads ==
    LET IsChunk(e) == e.event = "chunk"
        chunks == SelectSeq(events, IsChunk)
    IN  [i \in 1 .. Len(chunks) |-> chunks[i].data]

\* The non-empty text increments the stream has yielded, in order.
StreamTexts ==
    LET IsText(x) == x.kind = "text" /\ x.text # << >>
        texts == SelectSeq(stream, IsText)
    IN  [i \in 1 .. Len(texts) |-> texts[i].text]

\* C9: the chunk relayed for a text increment t of the provider's stream
\* has payload clean_citations(t).
C9_ChunkIsNormalized ==
    /\ Len(ChunkPayloads) >= Len(StreamTexts)
    /\ \A i \in 1 .. Len(StreamTexts) :
          ChunkPayloads[i] = clean_citations(StreamTexts[i])

\* C10: once the client has disconnected, at whatever suspension point, the
\* run yields no further event: no trace, chunk, done, and no error either.
C10_NoEventAfterDisconnect ==
    [][~connected' => events' = events]_vars

\* A disconnection after the sources event, before anything else.
C10_Witness ==
    /\ ~connected
    /\ pc = "cancelled"
    /\ LastEvent.event = "sources"


\* A stage has raised past its own recovery: _run_researcher could not
\* iterate what the Planner returned, or a sub-search raised at the barrier.
StageRaised ==
    \/ \E i \in 1 .. Len(results) : results[i].st = "raised"
    \/ /\ planner_resp.kind # "none"
       /\ ~Iterable(search_queries)
       /\ pc # "y_trace2"

\* C11: when a stage raises past its own recovery, the orchestrator yields
\* exactly error(<description>) immediately followed by done("Stream
\* failed."), nothing afterwards, and no exception leaves the generator.
C11_FailureIsErrorThenDone ==
    /\ pc # "escaped"
    /\ StageRaised => pc \in {"y_error", "y_done_failed", "end", "cancelled"}
    /\ pc = "y_error" =>
          /\ LastEvent.event = "error"
          /\ CountKind("error") = 1
          /\ CountKind("done") = 0
    /\ (StageRaised /\ pc \in {"y_done_failed", "end"}) =>
          /\ Len(events) >= 2
          /\ events[Len(events) - 1].event = "error"
          /\ LastEvent = DoneFailed
          /\ CountKind("error") = 1
          /\ CountKind("done") = 1

\* The second of three sub-searches raised after the first had returned, and
\* the run ended.
C11_Witness ==
    /\ pc = "end"
    /\ Len(results) = 3
    /\ results[1].st = "done"
    /\ results[2].st = "raised"
    /\ LastEvent = DoneFailed


\* C12: a run whose client stays connected and whose collaborator calls each
\* eventually return or fail eventually yields a done event.
C12_EventuallyDone ==
    <>(~connected \/ (pc = "end" /\ CountKind("done") = 1))

\* A run that was never disconnected and ended with its done event.
C12_Witness ==
    /\ connected
    /\ pc = "end"
    /\ LastEvent.event = "done"
    /\ Len(stream) = MaxChunks


(***************************************************************************)
(* clean_citations on its own                                              *)
(*                                                                         *)
(* A text is chosen, and clean_citations is applied to it and then to its  *)
(* own result.  The workflow's variables are not used.                     *)
(***************************************************************************)
MaxCiteLen == 4
MaxApplications == 2

CiteAlphabet == {"[", "]", "(", ")", ",", " ", "1", "2", Citation}

ShortTexts == UNION { [1..n -> CiteAlphabet] : n \in 0..MaxCiteLen }

\* The four inputs of the examples in the docstring of clean_citations.
DocInputs ==
    { <<"[", "1", "]">>,
      <<"[", "1", ",", " ", "2", "]">>,
      <<"[", "1", "]", " ", "(", Citation, "1", ")">>,
      <<"(", Citation, "3", "]">> }

\* The result the docstring gives for each of them.
DocOutput(text) ==
    CASE text = <<"[", "1", "]">> -> <<"[", "1", "]", "(", Citation, "1", ")">>
      [] text = <<"[", "1", ",", " ", "2", "]">> ->
             <<"[", "1", "]", "(", Citation, "1", ")",
               "[", "2", "]", "(", Citation, "2", ")">>
      [] text = <<"[", "1", "]", " ", "(", Citation, "1", ")">> ->
             <<"[", "1", "]", "(", Citation, "1", ")">>
      [] text = <<"(", Citation, "3", "]">> -> <<"(", Citation, "3", ")">>

\* The docstring's inputs inside a longer text.
Affixes == { << >> } \cup { <<c>> : c \in CiteAlphabet }
EmbeddedDocInputs == { a \o d \o b : a \in Affixes, d \in DocInputs, b \in Affixes }

CiteInputs == ShortTexts \cup EmbeddedDocInputs

CiteInit ==
    /\ Created(<<"q">>)
    /\ other = NoRun
    /\ cite_in \in CiteInputs
    /\ cite_out = << >>

\* One more application: to the text, then to the previous result.
Clean ==
    /\ Len(cite_out) < MaxApplications
    /\ cite_out' = Append(cite_out, clean_citations(IF cite_out = << >> THEN cite_in
                                                    ELSE cite_out[Len(cite_out)]))
    /\ UNCHANGED <<pc, query, events, planner_resp, search_queries, results, order,
                   context_str, sources, stream, connected, writer_calls, other,
                   cite_in>>

CiteNext == Clean

CiteSpec == CiteInit /\ [][CiteNext]_vars

\* C13: clean_citations is idempotent: applying it to its own result gives
\* that result again, for every text over digits, brackets, parentheses,
\* commas, spaces and the token #citation-.
C13_CleanIsIdempotent ==
    \A k \in 2..Len(cite_out) : cite_out[k] = cite_out[1]

\* A text with a citation list was rewritten, and cleaned again.
C13_Witness ==
    /\ cite_in = <<"[", "1", "]", " ">>
    /\ Len(cite_out) = 2
    /\ cite_out[1] # cite_in
    /\ cite_out[2] = cite_out[1]


\* C14: clean_citations maps each input of its docstring's examples to the
\* result the docstring gives: "[1] (#citation-1)" to exactly
\* "[1](#citation-1)", "[1]" to "[1](#citation-1)", "[1, 2]" to
\* "[1](#citation-1)[2](#citation-2)" and "(#citation-3]" to "(#citation-3)".
C14_DocstringExamples ==
    (cite_in \in DocInputs /\ cite_out # << >>) => cite_out[1] = DocOutput(cite_in)


\* A sub-search has been issued and has not completed.
SearchPending == \E i \in 1 .. Len(results) : results[i].st = "pending"

\* C15: the Planner's provider call has completed before any sub-search is
\* issued, and every sub-search has completed before the sources event is
\* yielded, before a Source gets its id and before the Writer's provider
\* call starts: no partial search result reaches the client or the Writer.
C15_SearchBarrier ==
    /\ results # << >> => planner_resp.kind # "none"
    /\ pc \in {"init", "planner"} => results = << >>
    /\ SearchPending =>
          /\ ~ResearcherReturned
          /\ sources = << >>
          /\ context_str = << >>
          /\ writer_calls = 0
          /\ stream = << >>
          /\ CountKind("chunk") = 0
    /\ pc = "y_sources" => \A i \in 1 .. Len(results) : results[i].st = "done"
    /\ writer_calls > 0 => ResearcherReturned

\* Three sub-searches completed out of order, the last of them with hits,
\* and the sources were yielded only then.
C15_Witness ==
    /\ pc = "y_sources"
    /\ Len(results) = 3
    /\ order = <<3, 1, 2>>
    /\ results[2].list # << >>
    /\ sources # << >>


\* C16: _run_writer's streaming call is issued at most once in a run, only
\* after the sources event, and exactly when the EvidenceContext is not
\* empty; when it is empty the run yields the fixed no-information chunk as
\* its only chunk and _run_writer is never called.
C16_WriterOnceIffContext ==
    /\ writer_calls <= 1
    /\ writer_calls = 1 => (ResearcherReturned /\ context_str # << >>)
    /\ stream # << >> => writer_calls = 1
    /\ (Completed /\ ResearcherReturned) => (writer_calls = 1 <=> context_str # << >>)
    /\ (Completed /\ ResearcherReturned /\ context_str = << >>) =>
          /\ ChunkPayloads = <<NoInfoMessage>>
          /\ writer_calls = 0
          /\ stream = << >>

\* _run_writer was called, relayed two chunks, and the run ended.
C16_Witness ==
    /\ pc = "end"
    /\ writer_calls = 1
    /\ context_str # << >>
    /\ Len(ChunkPayloads) = 2
    /\ LastEvent = DoneComplete


\* The positions of context_str where a "[Source <id>]" block begins.
BlockStarts == {i \in 1 .. Len(context_str) : context_str[i] = "[Source "}

\* The block of Source m in context_str.
BlockOf(m) ==
    LET n == Len(FormatSource(m, sources[m]))
    IN  SubSeq(context_str, n * (m - 1) + 1, n * m)

\* C17: the EvidenceContext is empty exactly when the Source sequence is,
\* and it consists of one "[Source <id>]" block per Source, in id order,
\* with that Source's url, title and content; when no sub-search returned a
\* hit, or there was no sub-query, _run_researcher returns ("", []).
C17_ContextMatchesSources ==
    /\ context_str = << >> <=> sources = << >>
    /\ Cardinality(BlockStarts) = Len(sources)
    /\ \A m \in 1 .. Len(sources) : BlockOf(m) = FormatSource(m, sources[m])
    /\ \A m \in 1 .. Len(sources) : sources[m].id = m
    /\ (pc = "y_sources" /\ Hits = {}) => (context_str = << >> /\ sources = << >>)

\* Three hits with two distinct urls gave two Sources and two blocks.
C17_Witness ==
    /\ pc = "y_sources"
    /\ Cardinality(Hits) = 3
    /\ Len(sources) = 2
    /\ Cardinality(BlockStarts) = 2


\* C18: the chunk events are contiguous: after the first chunk no trace and
\* no sources event is yielded; a chunk is followed only by chunks, at most
\* one error, and the final done.
C18_ChunksContiguous ==
    /\ \A i, j \in 1 .. Len(events) :
          (i < j /\ events[i].event = "chunk") =>
              events[j].event \in {"chunk", "error", "done"}
    /\ \A i, j \in 1 .. Len(events) :
          (i < j /\ events[i].event = "chunk" /\ events[j].event = "error") =>
              \A k \in (j + 1) .. Len(events) : events[k].event = "done"
    /\ CountKind("error") <= 1

\* Two chunks after the last trace, one after the other, and then done.
C18_Witness ==
    /\ pc = "end"
    /\ Len(events) = 7
    /\ events[4].event = "trace"
    /\ events[5].event = "chunk"
    /\ events[6].event = "chunk"
    /\ events[7].event = "done"


\* C19: in a run that is not cut short, done has the payload "Stream
\* failed." exactly when the run holds an error event, which is then the
\* event just before done; a run ending with done("Stream complete.") holds
\* no error event.
C19_FailedIffError ==
    Completed =>
        /\ LastEvent \in {DoneComplete, DoneFailed}
        /\ LastEvent = DoneFailed <=> CountKind("error") >= 1
        /\ CountKind("error") >= 1 =>
              (Len(events) >= 2 /\ events[Len(events) - 1].event = "error")
        /\ LastEvent = DoneComplete => CountKind("error") = 0

\* The Planner returned something that cannot be iterated: error, then
\* done("Stream failed.") after the two traces.
C19_Witness ==
    /\ pc = "end"
    /\ Len(events) = 4
    /\ events[3] = WorkflowError("object is not iterable")
    /\ events[4] = DoneFailed


(***************************************************************************)
(* Two runs in one process                                                 *)
(*                                                                         *)
(* get_ask creates one generator per request, and the event loop resumes   *)
(* one of them at a time.  The variables of the run hold the generator     *)
(* that is running; other holds the one that is suspended.                 *)
(***************************************************************************)
PairPlannerTexts == { <<"[", "\"", "a", "\"", ",", " ", "\"", "b", "\"", "]">> }
PairSnippetLists == { << >>, <<Snippet("a", "t1", "c1")>> }
PairIncrements == { <<"x">> }

PairPlannerReturns == PlannerReturnsFrom(PairPlannerTexts)
PairSearchReturns == SearchReturnsFrom(PairSnippetLists)
PairWriterYields == WriterYieldsFrom(PairIncrements)

\* The running generator as a record.
ThisRun == Run(pc, query, events, planner_resp, search_queries, results, order,
               context_str, sources, stream, connected, writer_calls)

PairInit ==
    /\ Created(<<"q">>)
    /\ other = Run("init", <<"w", "h", "y">>, << >>, [kind |-> "none", text |-> << >>],
                   Unset, << >>, << >>, << >>, << >>, << >>, TRUE, 0)
    /\ cite_in = << >>
    /\ cite_out = << >>

\* The event loop turns to the other generator.
Switch ==
    /\ other.pc # "absent"
    /\ other' = ThisRun
    /\ pc' = other.pc
    /\ query' = other.query
    /\ events' = other.events
    /\ planner_resp' = other.planner_resp
    /\ search_queries' = other.search_queries
    /\ results' = other.results
    /\ order' = other.order
    /\ context_str' = other.context_str
    /\ sources' = other.sources
    /\ stream' = other.stream
    /\ connected' = other.connected
    /\ writer_calls' = other.writer_calls
    /\ UNCHANGED <<cite_in, cite_out>>

PairNext ==
    \/ Start
    \/ PairPlannerReturns
    \/ PlannerRaises
    \/ ResearcherStart
    \/ PairSearchReturns
    \/ SearchRaises
    \/ ResearcherReturns
    \/ EmitTraceWriting
    \/ NoSnippetsTrace
    \/ NoInfoChunk
    \/ WriterStart
    \/ PairWriterYields
    \/ WriterFinishes
    \/ WriterRaises
    \/ EmitDone
    \/ FailDone
    \/ Return
    \/ Disconnect
    \/ Switch

PairSpec == PairInit /\ [][PairNext]_vars

\* The payloads of the chunk events of run r, in order.
ChunksOf(r) ==
    LET IsChunk(e) == e.event = "chunk"
        chunks == SelectSeq(r.events, IsChunk)
    IN  [i \in 1 .. Len(chunks) |-> chunks[i].data]

\* What _run_writer yields for the stream of run r: its non-empty
\* increments, and the message of its handler if the stream failed.
YieldsOf(r) ==
    LET Yielding(x) == x.kind = "fail" \/ x.text # << >>
        items == SelectSeq(r.stream, Yielding)
    IN  [i \in 1 .. Len(items) |->
            IF items[i].kind = "fail" THEN WriterErrorText(items[i].text[1])
            ELSE WriterPayload(items[i].text)]

\* The events of run r are those of a run on its own with r's query and
\* r's collaborator responses.
OnItsOwn(r) ==
    /\ Len(r.events) >= 1 => r.events[1] = TracePlanning
    /\ Len(r.events) >= 2 => r.events[2] = TraceSearching
    /\ r.pc = "y_sources" =>
          LET alone == Researcher(GatherResults(r.results, r.order))
          IN  /\ r.sources = alone.sources
              /\ r.context_str = alone.context_str
    /\ \A m \in 1 .. Len(r.sources) : r.sources[m].id = m
    /\ \A i \in 1 .. Len(r.events) :
          r.events[i].event = "sources" => r.events[i].data = JsonDumps(r.sources)
    /\ ChunksOf(r) = IF r.writer_calls = 1 THEN YieldsOf(r)
                     ELSE IF r.pc \in {"y_chunk_end", "y_done", "end", "cancelled"}
                             /\ \E i \in 1 .. Len(r.events) : r.events[i].event = "chunk"
                          THEN <<NoInfoMessage>>
                          ELSE << >>

\* C20: when two runs are interleaved at their suspension points, in any
\* order, each run's events are those it yields alone for the same query
\* and the same collaborator responses: no Source, id, seen url or event of
\* one run shows in the other.
C20_RunsIndependent ==
    /\ OnItsOwn(ThisRun)
    /\ other.pc # "absent" => OnItsOwn(other)
    /\ other.pc # "absent" => other.query # query

\* Both runs found the same url, each while the other was suspended at the
\* yield of its sources, and each numbered it 1.
C20_Witness ==
    /\ pc = "y_sources"
    /\ other.pc = "y_sources"
    /\ Len(sources) = 1
    /\ Len(other.sources) = 1
    /\ sources[1].url = other.sources[1].url
    /\ sources[1].id = 1
    /\ other.sources[1].id = 1

====
